---- MODULE Spec2Model ----
(***************************************************************************)
(* Optimistic concurrency control of django-concurrency's form layer       *)
(* (concurrency/forms.py): the signed version token written by             *)
(* VersionField, and the check/modify protocol of ConcurrentForm against   *)
(* the store.                                                              *)
(*                                                                         *)
(* Python values are records tagged by their type:                         *)
(*   [t |-> "none"]                    None                                *)
(*   [t |-> "int", n |-> 5]            an int                              *)
(*   [t |-> "str", s |-> <<"5">>]      a string, as a sequence of chars    *)
(*   [t |-> "SignedValue", value |-> v] a SignedValue instance             *)
(*   [t |-> "raise", exc |-> "..."]    the call raised the exception exc   *)
(***************************************************************************)
EXTENDS Integers, Sequences, FiniteSets, TLC

VARIABLES
    store,      \* the record in the store: absent, or its marker and field values
    pc,         \* session -> position of its request cycle
    hidden,     \* session -> hidden field value of the form it was given
    submitted,  \* session -> raw value posted back (Python value)
    cleaned,    \* session -> cleaned_data[version field] (an int) once decoded
    errors,     \* session -> set of non-field form errors
    raised,     \* session -> exception that left the form code, or "none"
    checks,     \* session -> number of _select_lock calls of this submission
    writes,     \* session -> number of successful writes of this submission
    log,        \* the successful writes of the record, in order
    cin,        \* codec run: the input value
    cenc,       \* codec run: result of prepare_value / bound_data
    cdec,       \* codec run: result of to_python
    cdisp,      \* codec run: result of SignedValue.__repr__
    cdate,      \* codec run: result of DateVersionField.to_python
    now         \* the wall clock, in ticks

protoVars == <<store, pc, hidden, submitted, cleaned, errors, raised,
               checks, writes, log>>
codecVars == <<cin, cenc, cdec, cdisp, cdate, now>>
vars == <<store, pc, hidden, submitted, cleaned, errors, raised,
          checks, writes, log, cin, cenc, cdec, cdisp, cdate, now>>

(***************************************************************************)
(* Bounds                                                                  *)
(***************************************************************************)
NumSessions == 2
MaxMarker == 3
MaxInt == 12
MaxLen == 4
MaxClock == 3

Sessions == 1..NumSessions

(***************************************************************************)
(* Python values                                                           *)
(***************************************************************************)
PyNone == [t |-> "none"]
PyInt(n) == [t |-> "int", n |-> n]
PyStr(s) == [t |-> "str", s |-> s]
Raise(e) == [t |-> "raise", exc |-> e]
Unset == [t |-> "unset"]

NoneStr == <<"N", "o", "n", "e">>
EmptyStr == <<>>

Digits == <<"0", "1", "2", "3", "4", "5", "6", "7", "8", "9">>

RECURSIVE NatToStr(_)
NatToStr(n) ==
    IF n < 10 THEN <<Digits[n + 1]>>
    ELSE NatToStr(n \div 10) \o <<Digits[(n % 10) + 1]>>

IntToStr(n) == IF n < 0 THEN <<"-">> \o NatToStr(0 - n) ELSE NatToStr(n)

\* str(value) / force_str(value) of a Python value
force_str(v) ==
    CASE v.t = "none" -> NoneStr
      [] v.t = "int"  -> IntToStr(v.n)
      [] v.t = "str"  -> v.s

\* bool(value)
Truthy(v) ==
    CASE v.t = "none" -> FALSE
      [] v.t = "int"  -> v.n # 0
      [] v.t = "str"  -> v.s # <<>>
      [] OTHER        -> TRUE

(***************************************************************************)
(* int(string): surrounding blanks are stripped, an optional sign, then    *)
(* one or more decimal digits; anything else is a ValueError.              *)
(***************************************************************************)
IsDigit(c) == \E i \in 1..10 : Digits[i] = c
DigitVal(c) == (CHOOSE i \in 1..10 : Digits[i] = c) - 1

RECURSIVE Strip(_)
Strip(s) ==
    IF s = <<>> THEN s
    ELSE IF Head(s) = " " THEN Strip(Tail(s))
    ELSE IF s[Len(s)] = " " THEN Strip(SubSeq(s, 1, Len(s) - 1))
    ELSE s

RECURSIVE DigitsVal(_)
DigitsVal(s) ==
    IF s = <<>> THEN 0
    ELSE 10 * DigitsVal(SubSeq(s, 1, Len(s) - 1)) + DigitVal(s[Len(s)])

AllDigits(s) == s # <<>> /\ \A i \in 1..Len(s) : IsDigit(s[i])

int(s) ==
    LET b == Strip(s)
        signed == b # <<>> /\ Head(b) \in {"-", "+"}
        d == IF signed THEN Tail(b) ELSE b
    IN  IF ~AllDigits(d) THEN Raise("ValueError")
        ELSE IF signed /\ Head(b) = "-" THEN PyInt(0 - DigitsVal(d))
        ELSE PyInt(DigitsVal(d))

(***************************************************************************)
(* The signer.  sign(value) is str(value), the separator and the MAC of    *)
(* str(value); unsign splits at the last separator and compares the MAC.   *)
(* The MAC is a keyed, injective function of the string whose output       *)
(* never contains the separator: a fixed key character followed by a       *)
(* prefix-free code of each character.                                     *)
(***************************************************************************)
sep == ":"

Chars == <<"0", "1", "2", "3", "4", "5", "6", "7", "8", "9",
           "-", "+", " ", ":", "N", "o", "n", "e", "x">>
Tags  == <<"A", "B", "C", "D", "E", "F", "G", "H", "I", "J",
           "K", "L", "M", "P", "Q", "R", "S", "T", "U">>

InChars(c) == \E i \in 1..Len(Chars) : Chars[i] = c

TagOf(c) ==
    IF InChars(c) THEN <<Tags[CHOOSE i \in 1..Len(Chars) : Chars[i] = c]>>
    ELSE <<"Y", c>>

RECURSIVE TagAll(_)
TagAll(s) == IF s = <<>> THEN <<>> ELSE TagOf(Head(s)) \o TagAll(Tail(s))

signature(s) == <<"Z">> \o TagAll(s)

sign(v) == force_str(v) \o <<sep>> \o signature(force_str(v))

HasSep(s) == \E i \in 1..Len(s) : s[i] = sep
LastSep(s) == CHOOSE i \in 1..Len(s) :
                  s[i] = sep /\ \A j \in (i + 1)..Len(s) : s[j] # sep

unsign(s) ==
    IF ~HasSep(s) THEN Raise("BadSignature")
    ELSE LET i == LastSep(s)
             value == SubSeq(s, 1, i - 1)
             sig == SubSeq(s, i + 1, Len(s))
         IN  IF sig = signature(value) THEN PyStr(value)
             ELSE Raise("BadSignature")

(***************************************************************************)
(* SignedValue and VersionField                                            *)
(***************************************************************************)
SignedValue(v) == [t |-> "SignedValue", value |-> v]

\* SignedValue.__repr__
repr(sv) == IF Truthy(sv.value) THEN force_str(sv.value) ELSE EmptyStr

\* VersionField.bound_data
bound_data(data) == SignedValue(data)

\* prepare_value that wraps the text of the value without signing it
prepare_value_unsigned(value) ==
    IF value.t = "SignedValue" THEN value
    ELSE SignedValue(PyStr(force_str(value)))

\* prepare_value that signs whatever it is given, a SignedValue included
prepare_value_resign(value) ==
    IF value.t = "SignedValue" THEN SignedValue(PyStr(sign(value.value)))
    ELSE SignedValue(PyStr(sign(value)))

\* VersionField.prepare_value
prepare_value(value) ==
    IF value.t = "SignedValue" THEN value
    ELSE SignedValue(PyStr(sign(value)))

IsSentinelInput(value) ==
    \/ value.t = "none"
    \/ value.t = "str" /\ value.s \in {EmptyStr, NoneStr}

\* to_python whose except clause names BadSignature only
to_python_badsig_only(value) ==
    IF ~IsSentinelInput(value)
    THEN LET u == unsign(value.s)
         IN  IF u.t = "raise" THEN Raise("SuspiciousOperation")
             ELSE int(u.s)
    ELSE PyInt(0)

\* to_python that falls back to the sentinel when the token does not verify
to_python_lenient(value) ==
    IF ~IsSentinelInput(value)
    THEN LET u == unsign(value.s)
         IN  IF u.t = "raise" THEN PyInt(0)
             ELSE IF int(u.s).t = "raise" THEN PyInt(0)
             ELSE int(u.s)
    ELSE PyInt(0)

\* to_python that reports a bad token as an ordinary ValidationError
to_python_validation_error(value) ==
    IF ~IsSentinelInput(value)
    THEN LET u == unsign(value.s)
         IN  IF u.t = "raise" THEN Raise("ValidationError")
             ELSE IF int(u.s).t = "raise" THEN Raise("ValidationError")
             ELSE int(u.s)
    ELSE PyInt(0)

\* VersionField.to_python
to_python(value) ==
    IF ~IsSentinelInput(value)
    THEN LET u == unsign(value.s)
         IN  IF u.t = "raise" THEN Raise("SuspiciousOperation")
             ELSE IF int(u.s).t = "raise" THEN Raise("SuspiciousOperation")
             ELSE int(u.s)
    ELSE PyInt(0)

(***************************************************************************)
(* DateVersionField.  A timestamp is a number of clock ticks; its text is  *)
(* the seconds field of the datetime format, which strptime reads from one *)
(* or two digits.                                                          *)
(***************************************************************************)
DateTime(n) == [t |-> "datetime", ticks |-> n]

\* the text of a timestamp, two digits
DateText(n) == <<Digits[(n \div 10) + 1], Digits[(n % 10) + 1]>>

\* value in validators.EMPTY_VALUES
InEmptyValues(v) == v.t = "none" \/ (v.t = "str" /\ v.s = EmptyStr)

\* forms.DateTimeField.to_python: None for an empty value, else the parsed text
DateTimeField_to_python(value) ==
    IF InEmptyValues(value) THEN PyNone
    ELSE IF value.t = "datetime" THEN value
    ELSE IF AllDigits(value.s) /\ Len(value.s) <= 2 THEN DateTime(DigitsVal(value.s))
    ELSE Raise("ValidationError")

\* a to_python that leaves the empty value to the base class
DateVersionField_to_python_base(value, clock) == DateTimeField_to_python(value)

\* DateVersionField.to_python, with timezone.now() = clock
DateVersionField_to_python(value, clock) ==
    LET v == DateTimeField_to_python(value)
    IN  IF v.t = "raise" THEN v
        ELSE IF InEmptyValues(v) THEN DateTime(clock)
        ELSE v

(***************************************************************************)
(* The store (concurrency.core and the model layer): one revision marker   *)
(* per record, read under the record's lock by _select_lock and advanced   *)
(* by the conditional write of Model.save().                               *)
(***************************************************************************)
AbsentRecord == [present |-> FALSE, marker |-> 0, data |-> 0]

\* get_current_marker(record_id) -> marker | absent, for the one record
get_current_marker == IF store.present THEN PyInt(store.marker) ELSE PyNone

\* _select_lock(instance, version_value): the check under the record's lock
_select_lock(v) ==
    LET live == get_current_marker
    IN  IF live = PyNone /\ v = 0 THEN "Match"
        ELSE IF live = PyInt(v) THEN "Match"
        ELSE "RecordModifiedError"

\* a conditional write that stores the values but leaves the marker as it was
conditional_write_same_marker(expected, values) ==
    LET live == get_current_marker
    IN  IF live = PyNone /\ expected = 0
        THEN [t |-> "Success", rec |-> [present |-> TRUE, marker |-> 1, data |-> values]]
        ELSE IF live = PyInt(expected)
        THEN [t |-> "Success",
              rec |-> [present |-> TRUE, marker |-> expected, data |-> values]]
        ELSE Raise("RecordModifiedError")

\* conditional_write(record_id, expected_marker, new_field_values)
conditional_write(expected, values) ==
    LET live == get_current_marker
    IN  IF live = PyNone /\ expected = 0
        THEN [t |-> "Success", rec |-> [present |-> TRUE, marker |-> 1, data |-> values]]
        ELSE IF live = PyInt(expected)
        THEN [t |-> "Success",
              rec |-> [present |-> TRUE, marker |-> expected + 1, data |-> values]]
        ELSE Raise("RecordModifiedError")

(***************************************************************************)
(* ConcurrentForm                                                          *)
(***************************************************************************)
RecordModified == "Record Modified"

\* clean that drops the RecordModifiedError without recording an error
clean_swallow(v) == {}

\* clean that only checks a marker that is truthy
clean_if_truthy(v) ==
    IF v # 0 /\ _select_lock(v) = "RecordModifiedError" THEN {RecordModified} ELSE {}

\* clean that answers Match whenever the record exists
clean_exists(v) ==
    IF store.present \/ v = 0 THEN {} ELSE {RecordModified}

\* clean that reports a conflict only for a marker above the stored one
clean_not_newer(v) ==
    IF store.present /\ v # 0 /\ v <= store.marker THEN {}
    ELSE IF _select_lock(v) = "RecordModifiedError" THEN {RecordModified}
    ELSE {}

\* ConcurrentForm.clean: the non-field errors it adds for the cleaned marker v
clean(v) ==
    IF _select_lock(v) = "RecordModifiedError" THEN {RecordModified} ELSE {}

\* save that writes with the marker the store holds now
save_latest(s) ==
    IF errors[s] # {} THEN Raise("ValueError")
    ELSE conditional_write(store.marker, s)

\* save that turns the store's rejection into the refusal of an invalid form
save_wrapped(s) ==
    IF errors[s] # {} THEN Raise("ValueError")
    ELSE IF conditional_write(cleaned[s], s).t = "raise"
    THEN Raise("ValueError")
    ELSE conditional_write(cleaned[s], s)

\* save that retries the write of a rejected form with the marker re-read
save_retry(s) ==
    IF errors[s] # {} THEN conditional_write(store.marker, s)
    ELSE conditional_write(cleaned[s], s)

\* ConcurrentForm.save of session s: ModelForm.save refuses a form with
\* errors; otherwise the instance, whose version field holds the cleaned
\* marker, is saved
save(s) ==
    IF errors[s] # {} THEN Raise("ValueError")
    ELSE conditional_write(cleaned[s], s)

(***************************************************************************)
(* What a client can post besides the hidden value it was given: nothing,  *)
(* the empty string, the literal "None", a token whose payload it changed  *)
(* (Crafted), and a hidden value rendered for an earlier revision of the   *)
(* record (Replayable).                                                    *)
(***************************************************************************)
Crafted ==
    {PyNone, PyStr(EmptyStr), PyStr(NoneStr),
     PyStr([sign(PyInt(1)) EXCEPT ![1] = "2"])}

Replayable == {PyStr(sign(PyInt(m))) : m \in 1..store.marker}

\* hidden values rendered for other records of the same model: the token
\* carries the marker only, so they verify for this record as well
Foreign == {PyStr(sign(PyInt(m))) : m \in 1..MaxMarker}

\* GET: the form is rendered for the record; the hidden input carries the text
\* of prepare_value(marker), None for a record that does not exist yet
Render(s) ==
    /\ pc[s] = "idle"
    /\ hidden' = [hidden EXCEPT ![s] = PyStr(repr(prepare_value(get_current_marker)))]
    /\ pc' = [pc EXCEPT ![s] = "rendered"]
    /\ UNCHANGED <<store, submitted, cleaned, errors, raised, checks, writes, log>>
    /\ UNCHANGED codecVars

\* POST, form.is_valid(): the field is cleaned by to_python; when that raises,
\* the exception leaves full_clean and clean() is not run; otherwise clean()
\* checks the cleaned marker against the store
Submit(s, tok) ==
    /\ pc[s] = "rendered"
    /\ submitted' = [submitted EXCEPT ![s] = tok]
    /\ LET d == to_python(tok)
       IN  IF d.t = "raise"
           THEN /\ raised' = [raised EXCEPT ![s] = d.exc]
                /\ pc' = [pc EXCEPT ![s] = "tampered"]
                /\ UNCHANGED <<cleaned, errors, checks>>
           ELSE /\ cleaned' = [cleaned EXCEPT ![s] = d.n]
                /\ errors' = [errors EXCEPT ![s] = clean(d.n)]
                /\ checks' = [checks EXCEPT ![s] = @ + 1]
                /\ pc' = [pc EXCEPT ![s] =
                             IF clean(d.n) = {} THEN "valid" ELSE "invalid"]
                /\ UNCHANGED raised
    /\ hidden' = [hidden EXCEPT ![s] = Unset]
    /\ UNCHANGED <<store, writes, log>>
    /\ UNCHANGED codecVars

\* the view calls form.save()
Save(s) ==
    /\ pc[s] \in {"valid", "invalid"}
    /\ LET res == save(s)
       IN  IF res.t = "Success"
           THEN /\ store.marker < MaxMarker
                /\ store' = res.rec
                /\ writes' = [writes EXCEPT ![s] = @ + 1]
                /\ log' = Append(log, [expected |-> cleaned[s], new |-> res.rec.marker])
                /\ pc' = [pc EXCEPT ![s] = "saved"]
                /\ UNCHANGED raised
           ELSE /\ raised' = [raised EXCEPT ![s] = res.exc]
                /\ pc' = [pc EXCEPT ![s] =
                             IF pc[s] = "invalid" THEN "refused" ELSE "failed"]
                /\ UNCHANGED <<store, writes, log>>
    /\ UNCHANGED <<hidden, submitted, cleaned, errors, checks>>
    /\ UNCHANGED codecVars

\* the request is over; the session starts afresh
Done(s) ==
    /\ pc[s] \in {"tampered", "invalid", "saved", "failed", "refused"}
    /\ pc' = [pc EXCEPT ![s] = "idle"]
    /\ submitted' = [submitted EXCEPT ![s] = Unset]
    /\ cleaned' = [cleaned EXCEPT ![s] = 0]
    /\ errors' = [errors EXCEPT ![s] = {}]
    /\ raised' = [raised EXCEPT ![s] = "none"]
    /\ checks' = [checks EXCEPT ![s] = 0]
    /\ writes' = [writes EXCEPT ![s] = 0]
    /\ UNCHANGED <<store, hidden, log>>
    /\ UNCHANGED codecVars

(***************************************************************************)
(* Codec runs: one value is encoded, decoded and displayed.                *)
(* The values to encode are the integer markers and None; the values to    *)
(* decode are None and strings: every string over CodecAlphabet of at most *)
(* MaxLen characters, every payload with every payload's MAC, with and     *)
(* without the separator, and every single-character change of a token     *)
(* the signer issues for a marker.                                         *)
(***************************************************************************)
Markers == {PyInt(n) : n \in (0 - MaxInt)..MaxInt}

CodecAlphabet == {"0", "1", "-", ":", "Z", "A", "B"}

RECURSIVE StringsUpTo(_)
StringsUpTo(n) ==
    IF n = 0 THEN {<<>>}
    ELSE LET shorter == StringsUpTo(n - 1)
         IN  shorter \cup {Append(s, c) : s \in {x \in shorter : Len(x) = n - 1},
                                          c \in CodecAlphabet}

OddPayloads == {NoneStr, EmptyStr, <<"x">>, <<"+", "5">>, <<"0", "5">>,
                <<" ", "5">>, <<"5", " ">>, <<"5", ":">>, <<"-">>,
                <<"1", " ", "2">>, <<"-", "-", "1">>}

Payloads == {IntToStr(n) : n \in (0 - MaxInt)..MaxInt} \cup OddPayloads

FlipChars == {"0", "9", ":", "Z", "A", "x"}

\* every change of one character of the token tok
FlipsOf(tok) == {[tok EXCEPT ![i] = c] : i \in 1..Len(tok), c \in FlipChars}

SubmittedStrings ==
    StringsUpTo(MaxLen)
    \cup Payloads
    \cup {p \o <<sep>> \o signature(q) : p \in Payloads, q \in Payloads}
    \cup {p \o signature(p) : p \in Payloads}
    \cup UNION {FlipsOf(sign(PyInt(n))) : n \in {0, 1, 0 - 1, MaxInt}}

\* the signer's output for the integers whose token fits a posted string
SignerOutputsForIntegers ==
    {sign(PyInt(n)) : n \in (0 - 10 * MaxInt)..(10 * MaxInt)}

\* the strings int() accepts: blanks, an optional sign, digits, blanks
DigitStrings ==
    {<<Digits[i]>> : i \in 1..10} \cup {<<Digits[i], Digits[j]>> : i, j \in 1..10}

IntegerStrings ==
    {pre \o sg \o d \o post : pre \in {<<>>, <<" ">>},
                              sg \in {<<>>, <<"+">>, <<"-">>},
                              d \in DigitStrings,
                              post \in {<<>>, <<" ">>}}

SignedIntegerStrings == {sign(PyStr(p)) : p \in IntegerStrings}

CodecInputs == Markers \cup {PyNone} \cup {PyStr(s) : s \in SubmittedStrings}

InitProto ==
    /\ store \in {AbsentRecord, [present |-> TRUE, marker |-> 1, data |-> 0]}
    /\ pc = [s \in Sessions |-> "idle"]
    /\ hidden = [s \in Sessions |-> Unset]
    /\ submitted = [s \in Sessions |-> Unset]
    /\ cleaned = [s \in Sessions |-> 0]
    /\ errors = [s \in Sessions |-> {}]
    /\ raised = [s \in Sessions |-> "none"]
    /\ checks = [s \in Sessions |-> 0]
    /\ writes = [s \in Sessions |-> 0]
    /\ log = <<>>

Init ==
    /\ InitProto
    /\ cin = Unset
    /\ cenc = Unset
    /\ cdec = Unset
    /\ cdisp = Unset
    /\ cdate = Unset
    /\ now = 0

Next ==
    \/ \E s \in Sessions : Render(s)
    \/ \E s \in Sessions : \E tok \in {hidden[s]} \cup Replayable \cup Foreign \cup Crafted :
           Submit(s, tok)
    \/ \E s \in Sessions : Save(s)
    \/ \E s \in Sessions : Done(s)

Spec == Init /\ [][Next]_vars

InitCodec ==
    /\ cin \in CodecInputs
    /\ cenc = Unset
    /\ cdec = Unset
    /\ cdisp = Unset
    /\ cdate = Unset
    /\ now = 0
    /\ store = AbsentRecord
    /\ pc = [s \in Sessions |-> "idle"]
    /\ hidden = [s \in Sessions |-> Unset]
    /\ submitted = [s \in Sessions |-> Unset]
    /\ cleaned = [s \in Sessions |-> 0]
    /\ errors = [s \in Sessions |-> {}]
    /\ raised = [s \in Sessions |-> "none"]
    /\ checks = [s \in Sessions |-> 0]
    /\ writes = [s \in Sessions |-> 0]
    /\ log = <<>>

\* the field renders a model value: prepare_value(marker or None)
Encode ==
    /\ cin.t \in {"int", "none"}
    /\ cenc = Unset
    /\ cdec = Unset
    /\ cenc' = prepare_value(cin)
    /\ UNCHANGED <<cin, cdec, cdisp, cdate, now>>
    /\ UNCHANGED protoVars

\* the rendered hidden value comes back unchanged: to_python(encoded.value)
DecodeHidden ==
    /\ cenc # Unset
    /\ cdec = Unset
    /\ cdec' = to_python(cenc.value)
    /\ UNCHANGED <<cin, cenc, cdisp, cdate, now>>
    /\ UNCHANGED protoVars

\* a client posts a raw value: to_python(None or string)
Decode ==
    /\ cin.t \in {"str", "none"}
    /\ cenc = Unset
    /\ cdec = Unset
    /\ cdec' = to_python(cin)
    /\ UNCHANGED <<cin, cenc, cdisp, cdate, now>>
    /\ UNCHANGED protoVars

\* the widget shows the encoded value: SignedValue.__repr__
Display ==
    /\ cenc # Unset
    /\ cdisp = Unset
    /\ cdisp' = PyStr(repr(cenc))
    /\ UNCHANGED <<cin, cenc, cdec, cdate, now>>
    /\ UNCHANGED protoVars

\* a bound form is displayed again with the posted string:
\* prepare_value(bound_data(data, initial))
Rebind ==
    /\ cin.t = "str"
    /\ cenc = Unset
    /\ cdec = Unset
    /\ cenc' = prepare_value(bound_data(cin))
    /\ UNCHANGED <<cin, cdec, cdisp, cdate, now>>
    /\ UNCHANGED protoVars

\* a client posts a raw value to a DateVersionField
DateDecode ==
    /\ cin.t \in {"str", "none"}
    /\ cdate = Unset
    /\ cdate' = DateVersionField_to_python(cin, now)
    /\ UNCHANGED <<cin, cenc, cdec, cdisp, now>>
    /\ UNCHANGED protoVars

\* the wall clock advances
Tick ==
    /\ now < MaxClock
    /\ now' = now + 1
    /\ UNCHANGED <<cin, cenc, cdec, cdisp, cdate>>
    /\ UNCHANGED protoVars

NextCodec ==
    Encode \/ DecodeHidden \/ Decode \/ Display \/ Rebind \/ DateDecode \/ Tick

SpecCodec == InitCodec /\ [][NextCodec]_vars

(***************************************************************************)
(* C4: round trip of the counter token.  For every integer marker v,       *)
(* zero included, decoding the hidden value that prepare_value(v) carries  *)
(* returns v.                                                              *)
(***************************************************************************)
C4_RoundTrip ==
    (cin.t = "int" /\ cenc # Unset /\ cdec # Unset) => cdec = cin

C4_Witness ==
    cin = PyInt(0) /\ cenc = SignedValue(PyStr(sign(PyInt(0)))) /\ cdec = PyInt(0)

(***************************************************************************)
(* C5: tamper detection.  As claimed: every non-empty posted string that   *)
(* is not the signer's output for an integer makes to_python raise         *)
(* SuspiciousOperation.                                                    *)
(***************************************************************************)
PostedRun == cin.t = "str" /\ cenc = Unset /\ cdec # Unset

C5_Original ==
    (PostedRun /\ cin.s # EmptyStr /\ cin.s \notin SignerOutputsForIntegers)
        => cdec = Raise("SuspiciousOperation")

(***************************************************************************)
(* C5 as amended: every non-empty posted string other than the literal     *)
(* "None" that is not the signer's output for a string that int() accepts  *)
(* makes to_python raise SuspiciousOperation; the literal "None" decodes   *)
(* to the sentinel 0.                                                      *)
(***************************************************************************)
C5_TamperDetected ==
    /\ (PostedRun /\ cin.s \notin {EmptyStr, NoneStr}
                  /\ cin.s \notin SignedIntegerStrings)
           => cdec = Raise("SuspiciousOperation")
    /\ (PostedRun /\ cin.s = NoneStr) => cdec = PyInt(0)

C5_Witness ==
    /\ PostedRun
    /\ cin.s = [sign(PyInt(1)) EXCEPT ![1] = "9"]
    /\ cdec = Raise("SuspiciousOperation")

(***************************************************************************)
(* C8: sentinel handling.  Encoding an absent marker and decoding the      *)
(* hidden value yields the sentinel 0, and the displayed string of the     *)
(* encoded token is empty.                                                 *)
(***************************************************************************)
C8_Sentinel ==
    /\ (cin = PyNone /\ cenc # Unset /\ cdec # Unset) => cdec = PyInt(0)
    /\ (cin = PyNone /\ cenc # Unset /\ cdisp # Unset) => cdisp = PyStr(EmptyStr)

(***************************************************************************)
(* Protocol claims, checked under Spec.                                    *)
(***************************************************************************)
Posted(s) == pc[s] \in {"tampered", "valid", "invalid", "saved", "failed", "refused"}

\* the signer rejects the posted value, or its payload is not an integer
TokenRejected(v) ==
    /\ v.t = "str"
    /\ v.s \notin {EmptyStr, NoneStr}
    /\ \/ unsign(v.s).t = "raise"
       \/ int(unsign(v.s).s).t = "raise"

(***************************************************************************)
(* C1: a stale edit is rejected.  When the marker decoded from a           *)
(* submission differs from the marker the store holds for the existing     *)
(* record at check time, clean records the error 'Record Modified' and     *)
(* the store is left as it was; the submission performs no write           *)
(* afterwards either.                                                      *)
(***************************************************************************)
C1_StaleRejected ==
    [][\A s \in Sessions :
          /\ (/\ pc[s] = "rendered"
              /\ pc'[s] \in {"valid", "invalid"}
              /\ store.present
              /\ cleaned'[s] # store.marker)
                 => (/\ pc'[s] = "invalid"
                     /\ errors'[s] = {RecordModified}
                     /\ store' = store)
          /\ (pc[s] = "invalid" /\ pc'[s] # "invalid")
                 => (store' = store /\ writes'[s] = 0)]_vars

C1_Witness ==
    \E s, u \in Sessions :
        /\ s # u
        /\ pc[u] = "saved"
        /\ pc[s] = "refused"
        /\ submitted[s] = submitted[u]
        /\ errors[s] = {RecordModified}
        /\ writes[s] = 0
        /\ store.marker = cleaned[s] + 1

(***************************************************************************)
(* C2: the conditional write is the final authority.  A write succeeds     *)
(* only if the store still holds the submitted marker at commit time (or   *)
(* no record, for the sentinel); a write rejected after a Match changes    *)
(* nothing; and no two successful writes of a record carry the same        *)
(* submitted marker.                                                       *)
(***************************************************************************)
C2_WriteIsAuthority ==
    /\ [][\A s \in Sessions :
             /\ (writes'[s] = writes[s] + 1)
                    => \/ (store.present
                             /\ store.marker = cleaned[s])
                       \/ (~store.present /\ cleaned[s] = 0)
             /\ (pc[s] = "valid" /\ pc'[s] = "failed") => store' = store]_vars
    /\ [](\A i, j \in DOMAIN log : i # j => log[i].expected # log[j].expected)

C2_Witness ==
    \E s, u \in Sessions :
        /\ s # u
        /\ cleaned[s] = cleaned[u]
        /\ checks[s] = 1 /\ checks[u] = 1
        /\ pc[s] = "failed" /\ writes[s] = 0
        /\ pc[u] = "saved" /\ writes[u] = 1

(***************************************************************************)
(* C3, as claimed: two submissions for the same record with the same       *)
(* marker never both hold a Match from the check in clean.                 *)
(***************************************************************************)
C3_Original ==
    \A s, u \in Sessions :
        (s # u /\ cleaned[s] = cleaned[u])
            => ~(pc[s] = "valid" /\ pc[u] = "valid")

(***************************************************************************)
(* C3 as amended: a submission does not observe Match from the check in    *)
(* clean for a marker with which another submission for the same record    *)
(* has already committed its write; its check sees the advanced marker.    *)
(***************************************************************************)
C3_NoMatchAfterCommit ==
    [][\A s, u \in Sessions :
          (/\ s # u
           /\ pc[u] = "saved"
           /\ pc[s] = "rendered"
           /\ pc'[s] = "valid")
              => cleaned'[s] # cleaned[u]]_vars

C3_Witness ==
    \E s, u \in Sessions :
        /\ s # u
        /\ pc[u] = "saved"
        /\ pc[s] = "invalid"
        /\ cleaned[s] = cleaned[u]
        /\ checks[s] = 1

(***************************************************************************)
(* C6: tamper short-circuits before the store.  A submission whose token   *)
(* the signer rejects, or whose payload is no integer, ends with           *)
(* SuspiciousOperation without any _select_lock call and without a write.  *)
(***************************************************************************)
C6_TamperShortCircuits ==
    \A s \in Sessions :
        (Posted(s) /\ TokenRejected(submitted[s]))
            => /\ pc[s] = "tampered"
               /\ raised[s] = "SuspiciousOperation"
               /\ checks[s] = 0
               /\ writes[s] = 0

C6_Witness ==
    \E s \in Sessions :
        /\ pc[s] = "tampered"
        /\ submitted[s] = PyStr([sign(PyInt(1)) EXCEPT ![1] = "2"])
        /\ store.present
        /\ checks[s] = 0

(***************************************************************************)
(* C7: a missing or invalid token is never 'no conflict'.  A submission    *)
(* whose token is None, empty, the literal "None" or rejected obtains      *)
(* Match only when the store holds no such record, and writes only when    *)
(* the store holds no such record.                                         *)
(***************************************************************************)
C7_MissingTokenNeverMatches ==
    [][\A s \in Sessions :
          /\ (/\ pc[s] = "rendered"
              /\ pc'[s] = "valid"
              /\ (IsSentinelInput(submitted'[s]) \/ TokenRejected(submitted'[s])))
                 => ~store.present
          /\ (/\ writes'[s] = writes[s] + 1
              /\ (IsSentinelInput(submitted[s]) \/ TokenRejected(submitted[s])))
                 => ~store.present]_vars

C7_Witness ==
    \E s, u \in Sessions :
        /\ s # u
        /\ pc[u] = "saved" /\ submitted[u] = PyStr(EmptyStr)
        /\ pc[s] = "invalid" /\ submitted[s] = PyStr(NoneStr)
        /\ store.present

(***************************************************************************)
(* C9, as claimed: a write rejected at commit time ends like a conflict    *)
(* found by clean, with the form error 'Record Modified' and no exception. *)
(***************************************************************************)
C9_Original ==
    \A s \in Sessions :
        pc[s] = "failed" => (errors[s] = {RecordModified} /\ raised[s] = "none")

(***************************************************************************)
(* C9 as amended: a write rejected at commit time after a Match leaves     *)
(* save as the exception RecordModifiedError, which the caller has to      *)
(* catch; no form error is recorded and nothing is written.                *)
(***************************************************************************)
C9_LateConflictRaises ==
    \A s \in Sessions :
        pc[s] = "failed"
            => /\ raised[s] = "RecordModifiedError"
               /\ errors[s] = {}
               /\ writes[s] = 0

C9_Witness ==
    \E s \in Sessions :
        /\ pc[s] = "failed"
        /\ checks[s] = 1
        /\ store.marker # cleaned[s]

(***************************************************************************)
(* C10: marker monotonicity.  A record's stored marker never decreases, a  *)
(* successful write leaves a marker strictly greater than the submitted    *)
(* one, and no two successful writes of a record leave the same marker.    *)
(***************************************************************************)
C10_Monotonic ==
    /\ [][/\ store.present
                 => (store'.present /\ store'.marker >= store.marker)
          /\ \A s \in Sessions :
                (writes'[s] = writes[s] + 1)
                    => store'.marker > cleaned[s]]_vars
    /\ [](\A i, j \in DOMAIN log : i # j => log[i].new # log[j].new)

C10_Witness ==
    /\ Len(log) >= 2
    /\ store.marker = log[Len(log)].new

(***************************************************************************)
(* C11: Tampered and Conflict are distinct outcomes that both block the    *)
(* write.  A tampered submission ends with the exception                   *)
(* SuspiciousOperation and no form error; a conflicting one ends with the  *)
(* form error 'Record Modified' and no SuspiciousOperation; no submission  *)
(* has both; and a submission with either outcome never changes the store. *)
(***************************************************************************)
C11_TamperedAndConflictDistinct ==
    /\ [](\A s \in Sessions :
            /\ pc[s] = "tampered"
                  => (raised[s] = "SuspiciousOperation" /\ errors[s] = {})
            /\ pc[s] \in {"invalid", "refused"}
                  => (errors[s] = {RecordModified}
                        /\ raised[s] \in {"none", "ValueError"})
            /\ ~(raised[s] = "SuspiciousOperation" /\ RecordModified \in errors[s])
            /\ pc[s] \in {"tampered", "invalid", "refused"} => writes[s] = 0)
    /\ [][\A s \in Sessions :
            (pc[s] \in {"tampered", "invalid", "refused"} /\ pc'[s] # pc[s])
                => store' = store]_vars

C11_Witness ==
    \E s, u \in Sessions :
        /\ pc[s] = "tampered" /\ raised[s] = "SuspiciousOperation"
        /\ pc[u] = "invalid" /\ errors[u] = {RecordModified}
        /\ store.present

(***************************************************************************)
(* C12: new-record scenario.  The hidden value rendered for an absent      *)
(* marker, posted back unchanged, decodes to the sentinel 0; it is         *)
(* answered with Match while the store holds no record, and a save that    *)
(* follows creates the record with the first marker 1.                     *)
(***************************************************************************)
AbsentHidden == PyStr(repr(prepare_value(PyNone)))

C12_NewRecord ==
    \A s \in Sessions :
        (Posted(s) /\ submitted[s] = AbsentHidden)
            => /\ pc[s] # "tampered"
               /\ cleaned[s] = 0
               /\ (~store.present => pc[s] = "valid")
               /\ (pc[s] = "saved" => (store.present /\ log[1].new = 1))

(***************************************************************************)
(* C13: every version token is accepted only if its signature verifies,    *)
(* for both marker kinds.  A posted string that the signer does not verify *)
(* is never decoded to a marker, neither by VersionField nor by            *)
(* DateVersionField.                                                       *)
(***************************************************************************)
C13_OnlySignedAccepted ==
    /\ (PostedRun /\ cin.s \notin {EmptyStr, NoneStr} /\ unsign(cin.s).t = "raise")
           => cdec.t = "raise"
    /\ (cin.t = "str" /\ cin.s # EmptyStr /\ cdate # Unset
                       /\ unsign(cin.s).t = "raise")
           => cdate.t = "raise"

(***************************************************************************)
(* C14: timestamp variant, empty input.  DateVersionField.to_python of an  *)
(* absent or empty value returns the wall-clock time at the decode, and    *)
(* the text of a timestamp is returned as that timestamp.                  *)
(***************************************************************************)
C14_EmptyIsNow ==
    [][(cdate = Unset /\ cdate' # Unset)
          => /\ InEmptyValues(cin) => cdate' = DateTime(now)
             /\ \A n \in 0..99 : cin = PyStr(DateText(n)) => cdate' = DateTime(n)]_vars

C14_Witness ==
    /\ cin = PyStr(EmptyStr)
    /\ now > 0
    /\ cdate = DateTime(now)

(***************************************************************************)
(* C15: the display value is the marker, never the signed payload.  For a  *)
(* present marker v the text shown for the encoded value is the text of    *)
(* v; it is empty for the sentinel 0 and for an absent marker; it is never *)
(* the signed value carried by the hidden field.                           *)
(***************************************************************************)
C15_DisplayIsMarker ==
    /\ (cin.t = "int" /\ cenc # Unset /\ cdisp # Unset)
           => cdisp = PyStr(IF cin.n = 0 THEN EmptyStr ELSE IntToStr(cin.n))
    /\ (cin = PyNone /\ cenc # Unset /\ cdisp # Unset)
           => cdisp = PyStr(EmptyStr)
    /\ (cin.t \in {"int", "none"} /\ cenc # Unset /\ cdisp # Unset)
           => cdisp # cenc.value

(***************************************************************************)
(* C16, as claimed: once a submission carrying marker M has been answered  *)
(* with Conflict, every later submission carrying M is answered with       *)
(* Conflict.                                                               *)
(***************************************************************************)
Conflicted(u) == pc[u] \in {"invalid", "refused"}

C16_Original ==
    [][\A s, u \in Sessions :
          (/\ s # u
           /\ Conflicted(u)
           /\ pc[s] = "rendered"
           /\ pc'[s] \in {"valid", "invalid"}
           /\ cleaned'[s] = cleaned[u])
              => pc'[s] = "invalid"]_vars

(***************************************************************************)
(* C16 as amended: once a submission carrying a stale marker M (one below  *)
(* the marker the store holds for the record, the sentinel for an existing *)
(* record included) has been answered with Conflict, M stays below the     *)
(* stored marker and every later submission carrying M is answered with    *)
(* Conflict.                                                               *)
(***************************************************************************)
Stale(u) == Conflicted(u) /\ store.present /\ cleaned[u] < store.marker

C16_StaleConflictPermanent ==
    /\ [][\A u \in Sessions :
             Stale(u) => (store'.present /\ cleaned[u] < store'.marker)]_vars
    /\ [][\A s, u \in Sessions :
             (/\ s # u
              /\ Stale(u)
              /\ pc[s] = "rendered"
              /\ pc'[s] \in {"valid", "invalid"}
              /\ cleaned'[s] = cleaned[u])
                 => pc'[s] = "invalid"]_vars

C16_Witness ==
    \E s, u \in Sessions :
        /\ s # u
        /\ Stale(u) /\ Stale(s)
        /\ cleaned[s] = cleaned[u]
        /\ cleaned[s] >= 1
        /\ Len(log) >= 1

(***************************************************************************)
(* C17: each submission is checked exactly once and never retried.  A      *)
(* submission makes at most one _select_lock call, exactly one once its    *)
(* token decoded; after Conflict or Tampered it makes no further check and *)
(* no write, and the store is as it was when the submission ends.          *)
(***************************************************************************)
C17_CheckedOnce ==
    /\ [](\A s \in Sessions :
            /\ checks[s] <= 1
            /\ pc[s] \in {"valid", "invalid", "saved", "failed", "refused"}
                  => checks[s] = 1)
    /\ [][\A s \in Sessions :
            pc[s] \in {"tampered", "invalid", "refused"}
                => /\ checks'[s] <= checks[s]
                   /\ writes'[s] = 0
                   /\ pc'[s] \in {pc[s], "refused", "idle"}
                   /\ (pc'[s] # pc[s] => store' = store)]_vars

C17_Witness ==
    \E s \in Sessions :
        /\ pc[s] = "refused"
        /\ raised[s] = "ValueError"
        /\ checks[s] = 1
        /\ writes[s] = 0

(***************************************************************************)
(* C18: encoding is idempotent on wrapped tokens and re-rendering          *)
(* preserves the posted token.  The value of a bound field is the posted   *)
(* string wrapped once and not signed again, its text is exactly the       *)
(* posted string, and a token the signer issued for a marker still decodes *)
(* to that marker after the form has been displayed again.                 *)
(***************************************************************************)
C18_RebindPreservesToken ==
    /\ (cin.t = "str" /\ cenc # Unset) => cenc = SignedValue(cin)
    /\ (cin.t = "str" /\ cenc # Unset /\ cdisp # Unset) => cdisp = cin
    /\ \A n \in (0 - MaxInt)..MaxInt :
          (cin = PyStr(sign(PyInt(n))) /\ cenc # Unset /\ cdec # Unset)
              => cdec = PyInt(n)

C18_Witness ==
    /\ cin = PyStr(sign(PyInt(1)))
    /\ cenc = SignedValue(cin)
    /\ cdisp = cin
    /\ cdec = PyInt(1)

====
